---- MODULE Spec2Model ----
(***************************************************************************)
(* Model of the host driver of ljmd-cl (src/src/ljmd-cl.c, main): command  *)
(* line handling, start-up, initial force/energy evaluation and the        *)
(* velocity-Verlet stepping loop with its conditional readbacks and        *)
(* periodic output.  Device data are abstracted to version tags (which     *)
(* kernel of which step last wrote a buffer); control flow, the status     *)
(* word and the modulo conditions are taken literally from the source.     *)
(***************************************************************************)
EXTENDS Integers, Sequences, FiniteSets, TLC

\* ---------------------------------------------------------------- bounds
MaxSteps == 4
MaxPrint == 3
MaxFaults == 1

\* largest value of the int that holds sys.nfi and sys.nsteps, scaled down to
\* the largest step count tried
IntMax == MaxSteps

\* ------------------------------------------------------ program constants
CL_SUCCESS == 0
CpuThreads == 16
GpuThreads == 1024
UsageExit == 1
InitClExit == 4
InputExit == 1
RestartExit == 3
AbortExit == 1
NumInputLines == 12
KinScale == 3

VARIABLES
  argc, argv1, argv2,      \* command line: argument count, device, thread-count text
                           \* (empty when argv[2] does not exist)
  in_nsteps, in_nprint,    \* numeric content of input-script lines 10 and 12
  in_dt,                   \* text of input-script line 11 (timestep)
  in_restart,              \* restart file: "full" (2N triples) or "short"
  pc, exitCode,            \* position in main; process exit status (-1 while running)
  nthreads, nprint,        \* locals of main
  nfi, nsteps,             \* sys.nfi, sys.nsteps
  status,                  \* cl_int status: CL_SUCCESS or 1 (any non-zero error code)
  clReady, inputRead,      \* InitOpenCLEnvironment succeeded; input script consumed
  dev,                     \* device buffers: version tags of pos, vel, f, epot, ekin;
                           \* fpos: the positions the last force pass read
  fzero,                   \* force buffers zero-filled since the last force pass
  staged,                  \* host staging: buffers[0..2], tmp_epot, tmp_ekin
  sys,                     \* sys.epot, sys.ekin, sys.temp (version tags of the partials
                           \* summed) and the sums themselves (epotVal, ekinVal)
  outputs,                 \* records written by output()
  trace,                   \* kernels handed to clEnqueueNDRangeKernel, in order
  consumed,                \* per kind: staging generation read by the last output
  startFail,  \* start-up failure met: none, cl, input or restart
  dt,  \* sys.dt
  held,  \* resources acquired and not yet released
  inflight,  \* commands on cmdQueue the host has not waited for
  faults, initFail, loopFail  \* injected device failures; first-failure bookkeeping

vars == << inflight, held, dt, startFail, argc, argv1, argv2, in_nsteps, in_nprint, in_dt,
           in_restart, pc,
           exitCode, nthreads,
           nprint, nfi, nsteps, status, clReady, inputRead, dev, fzero, staged,
           sys, outputs, trace, consumed, faults, initFail, loopFail >>

Kinds == {"pos", "epot", "ekin"}

\* ------------------------------------------------------------ pure helpers

\* status word: 0 is CL_SUCCESS, 1 stands for any non-zero error code
St(ok) == IF ok THEN CL_SUCCESS ELSE 1

\* status |= x : zero iff both operands are zero
Or(a, b) == IF a = CL_SUCCESS /\ b = CL_SUCCESS THEN CL_SUCCESS ELSE 1

Cost(ok) == IF ok THEN 0 ELSE 1

\* CheckSuccess(status, id): the run is aborted when status is not CL_SUCCESS
CheckFails(st) == st # CL_SUCCESS

Digits == {"0", "1", "2", "3", "4", "5", "6", "7", "8", "9"}

DigitVal(c) ==
  CASE c = "0" -> 0 [] c = "1" -> 1 [] c = "2" -> 2 [] c = "3" -> 3
    [] c = "4" -> 4 [] c = "5" -> 5 [] c = "6" -> 6 [] c = "7" -> 7
    [] c = "8" -> 8 [] c = "9" -> 9

RECURSIVE ParseDigits(_, _)
ParseDigits(s, acc) ==
  IF s = << >> \/ Head(s) \notin Digits THEN acc
  ELSE ParseDigits(Tail(s), 10 * acc + DigitVal(Head(s)))

RECURSIVE SkipSpace(_)
SkipSpace(s) == IF s # << >> /\ Head(s) = " " THEN SkipSpace(Tail(s)) ELSE s

\* strtol(argv[2], NULL, 10): blanks, optional sign, longest digit prefix; 0 if none
strtol(s) ==
  LET t == SkipSpace(s) IN
    IF t = << >> THEN 0
    ELSE IF Head(t) = "-" THEN 0 - ParseDigits(Tail(t), 0)
    ELSE IF Head(t) = "+" THEN ParseDigits(Tail(t), 0)
    ELSE ParseDigits(t, 0)

\* variants of the capture condition: at the print boundary itself, every step, never
CaptureAtBoundary(n, np) == (n % np) = 0
CaptureAlways(n, np) == (n % np) = (n % np)
CaptureNever(n, np) == (n % np) = np

\* (sys.nfi % nprint) == nprint-1
CaptureCond(n, np) == (n % np) = np - 1

\* variant of the output condition: one step before the boundary
OutputBeforeBoundary(n, np) == (n % np) = np - 1

\* (sys.nfi % nprint) == 0
OutputCond(n, np) == (n % np) = 0

\* variant order: second half-kick dispatched before the force pass
NextPhaseKickBeforeForce(p) ==
  CASE p = "verlet_first"   -> "download_pos"
    [] p = "download_pos"   -> "verlet_second"
    [] p = "verlet_second"  -> "download_epot"
    [] p = "download_epot"  -> "force"
    [] p = "force"          -> "ekin"
    [] p = "ekin"           -> "write_output"

\* variant order: kinetic-energy pass dispatched before the second half-kick
NextPhaseEkinBeforeKick(p) ==
  CASE p = "verlet_first"   -> "download_pos"
    [] p = "download_pos"   -> "force"
    [] p = "force"          -> "download_epot"
    [] p = "download_epot"  -> "ekin"
    [] p = "ekin"           -> "verlet_second"
    [] p = "verlet_second"  -> "write_output"

\* statement order of one loop iteration
NextPhase(p) ==
  CASE p = "verlet_first"   -> "download_pos"
    [] p = "download_pos"   -> "force"
    [] p = "force"          -> "download_epot"
    [] p = "download_epot"  -> "verlet_second"
    [] p = "verlet_second"  -> "ekin"
    [] p = "ekin"           -> "write_output"

\* variant: loop test with < in place of <=
LoopTestStrict(n, ns) == IF n < ns THEN "verlet_first" ELSE "cleanup"

\* ++sys.nfi on an int that already holds the largest value
Overflows(n) == n + 1 > IntMax

\* for-loop test sys.nfi <= sys.nsteps
LoopTest(n, ns) == IF n <= ns THEN "verlet_first" ELSE "cleanup"

\* velocity version tags: 0 restart, 2s-1 after first half-kick, 2s after second
VelFirst(s) == 2 * s - 1
VelSecond(s) == 2 * s

\* integer stand-in for slot w of a partial-energy array written by the pass
\* tagged ver (ver = -1: never written, whatever malloc left)
PartialVal(ver, w) == ver + w + 2

\* iterations i..m-1 of the summation loop, in index order
RECURSIVE SumRun(_, _, _, _)
SumRun(acc, ver, i, m) ==
  IF acc \in Int /\ i < m THEN SumRun(acc + PartialVal(ver, i), ver, i + 1, m)
                          ELSE acc

\* for( i = 0; i < nthreads; i++) acc += tmp[i];  evaluated in index order, in
\* runs of 32 iterations to keep the evaluation depth small
RECURSIVE SumLoop(_, _, _, _)
SumLoop(acc, ver, i, n) ==
  IF acc \in Int /\ i < n
    THEN LET m == IF i + 32 < n THEN i + 32 ELSE n
         IN SumLoop(SumRun(acc, ver, i, m), ver, m, n)
    ELSE acc

\* sys.ekin *= HALF * mvsq2e * sys.mass, with KinScale the integer stand-in
\* of the factor
Scaled(x) == x * KinScale

NoStage == [ver |-> -1, at |-> -1, gen |-> 0, fpos |-> -1, pend |-> 0]

\* atof(line): value of the longest numeric prefix, 0 when there is none
\* (texts without fraction or exponent)
atof(s) == strtol(s)

\* timestep lines tried: a number, and a text that is not a number
DtTexts == { << "5" >>, << "x" >> }

\* command lines tried
ArgvThreads == { << "-", "1" >>, << "0" >>, << "2" >>, << "x" >> }

\* the device name reaches the driver only through the default thread count, so
\* it is varied where the default is used; a timestep text that is no number and
\* a short restart file are tried with the command line "ljmd-cl cpu"
DefaultCommandLine == argc = 2 /\ argv1 = "cpu"

Init ==
  /\ argc \in 1..4
  /\ argv1 \in IF argc = 2 THEN {"cpu", "gpu"} ELSE {"cpu"}
  /\ argv2 \in IF argc >= 3 THEN ArgvThreads ELSE { << >> }
  /\ in_nsteps \in 0..MaxSteps
  /\ in_nprint \in 1..MaxPrint
  /\ in_dt \in IF DefaultCommandLine THEN DtTexts ELSE { << "5" >> }
  /\ in_restart \in IF DefaultCommandLine THEN {"full", "short"} ELSE {"full"}
  /\ pc = "args"
  /\ exitCode = -1
  /\ nthreads = 0
  /\ nprint = 0
  /\ nfi = 0
  /\ nsteps = 0
  /\ status = CL_SUCCESS
  /\ clReady = FALSE
  /\ inputRead = FALSE
  /\ dev = [pos |-> -1, vel |-> -1, f |-> -1, fpos |-> -1, epot |-> -1, ekin |-> -1]
  /\ fzero = FALSE
  /\ staged = [k \in Kinds |-> NoStage]
  /\ sys = [epot |-> -1, ekin |-> -1, temp |-> -1, epotVal |-> 0, ekinVal |-> 0]
  /\ outputs = << >>
  /\ trace = << >>
  /\ consumed = [k \in Kinds |-> 0]
  /\ faults = 0
  /\ initFail = FALSE
  /\ loopFail = -1
  /\ inflight = 0
  /\ held = {}
  /\ dt = 0
  /\ startFail = "none"

Exit(code) == /\ pc' = "exited"
              /\ exitCode' = code

\* lines 147-162: switch (argc)
HandleArgs ==
  /\ pc = "args"
  /\ IF argc = 2
       THEN /\ nthreads' = IF argv1 = "cpu" THEN CpuThreads ELSE GpuThreads
            /\ pc' = "init_cl"
            /\ UNCHANGED exitCode
       ELSE IF argc = 3
         THEN /\ nthreads' = strtol(argv2)
              /\ IF strtol(argv2) < 0
                   THEN Exit(UsageExit)
                   ELSE pc' = "init_cl" /\ UNCHANGED exitCode
         ELSE /\ Exit(UsageExit)
              /\ UNCHANGED nthreads
  /\ UNCHANGED << inflight, held, dt, startFail, argc, argv1, argv2, in_nsteps, in_nprint, in_dt, in_restart, nprint, nfi, nsteps,
                  status, clReady, inputRead, dev, fzero, staged, sys, outputs,
                  trace, consumed, faults, initFail, loopFail >>

\* variant: the failure of InitOpenCLEnvironment is ignored
InitCLUnchecked ==
  /\ pc = "init_cl"
  /\ \E ok \in BOOLEAN :
       /\ clReady' = ok
       /\ startFail' = IF ok THEN startFail ELSE "cl"
  /\ pc' = "read_input"
  /\ UNCHANGED << inflight, held, dt, argc, argv1, argv2, in_nsteps, in_nprint, in_dt, in_restart, exitCode, nthreads,
                  nprint, nfi, nsteps, status, inputRead, dev, fzero, staged, sys,
                  outputs, trace, consumed, faults, initFail, loopFail >>

\* lines 165-168: InitOpenCLEnvironment
InitCL ==
  /\ pc = "init_cl"
  /\ \E ok \in BOOLEAN :
       IF ok THEN /\ clReady' = TRUE
                  /\ pc' = "read_input"
                  /\ UNCHANGED << exitCode, startFail >>
             ELSE /\ Exit(InitClExit)
                  /\ startFail' = "cl"
                  /\ UNCHANGED clReady
  /\ UNCHANGED << inflight, held, dt, argc, argv1, argv2, in_nsteps, in_nprint, in_dt, in_restart, nthreads, nprint, nfi,
                  nsteps, status, inputRead, dev, fzero, staged, sys, outputs,
                  trace, consumed, faults, initFail, loopFail >>

\* lines 171-191: twelve get_me_a_line calls, each fatal on failure; got is the
\* number of lines stdin still delivers
ReadInput ==
  /\ pc = "read_input"
  /\ \E got \in 0..NumInputLines :
       IF got = NumInputLines
         THEN /\ nsteps' = in_nsteps
              /\ dt' = atof(in_dt)
              /\ nprint' = in_nprint
              /\ inputRead' = TRUE
              /\ pc' = "alloc"
              /\ UNCHANGED << exitCode, startFail >>
         ELSE /\ Exit(InputExit)
              /\ startFail' = "input"
              /\ inputRead' = TRUE
              /\ UNCHANGED << nsteps, dt, nprint >>
  /\ UNCHANGED << inflight, held, argc, argv1, argv2, in_nsteps, in_nprint, in_dt, in_restart, nthreads, nfi, status,
                  clReady, dev, fzero, staged, sys, outputs, trace, consumed,
                  faults, initFail, loopFail >>

\* resources by the statement group that acquires them; a group whose call
\* fails acquires nothing
ParticleBuffers == {"rx", "ry", "rz", "vx", "vy", "vz", "fx", "fy"}
LastParticleBuffer == {"fz"}
StagingBuffers == {"buffers0", "buffers1", "buffers2"}
ProgramObjects == {"program", "kernel_force", "kernel_ekin", "kernel_verlet_first",
                   "kernel_verlet_second", "kernel_azzero"}
OutputFiles == {"erg", "traj"}

Got(ok, res) == IF ok THEN res ELSE {}

\* variant: transfers issued with CL_FALSE
NonBlockingTransfer == FALSE

\* blocking_read / blocking_write argument of every transfer: CL_TRUE
BlockingTransfer == TRUE

\* commands still in flight when a transfer call returns: a blocking call
\* returns after the in-order queue has drained, a non-blocking one at once
AfterTransfer(blocking, n) == IF blocking THEN 0 ELSE n + 1

\* clEnqueueNDRangeKernel returns at once; a failed call enqueues nothing
Enqueued(n, ok) == IF ok THEN n + 1 ELSE n

inputs == << argc, argv1, argv2, in_nsteps, in_nprint, in_dt, in_restart >>
locals == << nthreads, nprint, nsteps, clReady, inputRead >>

\* a device call may fail while the failure budget lasts
Budget(n) == faults + n <= MaxFaults

\* lines 196-209: nine clCreateBuffer calls, each overwriting status; three mallocs
Alloc ==
  /\ pc = "alloc"
  /\ \E okEarlier, okLast \in BOOLEAN :
       /\ Budget(Cost(okEarlier) + Cost(okLast))
       /\ faults' = faults + Cost(okEarlier) + Cost(okLast)
       /\ status' = St(okLast)
       /\ initFail' = (initFail \/ ~okEarlier \/ ~okLast)
       /\ held' = held \cup Got(okEarlier, ParticleBuffers)
                       \cup Got(okLast, LastParticleBuffer) \cup StagingBuffers
  /\ pc' = "read_restart"
  /\ UNCHANGED << inflight, dt, startFail, inputs, locals, exitCode, nfi, dev, fzero, staged, sys, outputs,
                  trace, consumed, loopFail >>

\* lines 214-228: the fscanf results are not looked at; with fewer than 2N
\* triples the rest of the staging buffers is uploaded as left by malloc
Uploaded(d, content) ==
  IF content = "full" THEN [d EXCEPT !.pos = 0, !.vel = 0]
                      ELSE [d EXCEPT !.pos = -1, !.vel = -1]

\* lines 212-235: fopen, fscanf loop, six blocking uploads OR-ed into status
ReadRestart ==
  /\ pc = "read_restart"
  /\ \E opened, ok \in BOOLEAN :
       IF opened
         THEN /\ Budget(Cost(ok))
              /\ faults' = faults + Cost(ok)
              /\ status' = St(ok)
              /\ initFail' = (initFail \/ ~ok)
              /\ dev' = IF ok THEN Uploaded(dev, in_restart) ELSE dev
              /\ inflight' = IF ok THEN AfterTransfer(BlockingTransfer, inflight) ELSE inflight
              /\ pc' = "build"
              /\ UNCHANGED << exitCode, startFail >>
         ELSE /\ ok
              /\ Exit(RestartExit)
              /\ startFail' = "restart"
              /\ UNCHANGED << faults, status, initFail, dev, inflight >>
  /\ UNCHANGED << held, dt, inputs, locals, nfi, fzero, staged, sys, outputs, trace,
                  consumed, loopFail >>

\* lines 238-276: sys.nfi=0, program create/build, five kernels, epot buffer,
\* derived constants, sys.epot = sys.ekin = ZERO
Build ==
  /\ pc = "build"
  /\ \E okEarlier, okLast \in BOOLEAN :
       /\ Budget(Cost(okEarlier) + Cost(okLast))
       /\ faults' = faults + Cost(okEarlier) + Cost(okLast)
       /\ status' = St(okLast)
       /\ initFail' = (initFail \/ ~okEarlier \/ ~okLast)
       /\ held' = held \cup Got(okEarlier, ProgramObjects) \cup {"tmp_epot"}
                       \cup Got(okLast, {"epot_buffer"})
  /\ nfi' = 0
  /\ sys' = [sys EXCEPT !.epot = 0, !.ekin = 0, !.epotVal = 0, !.ekinVal = 0]
  /\ pc' = "azzero"
  /\ UNCHANGED << inflight, dt, startFail, inputs, locals, exitCode, dev, fzero, staged, outputs, trace,
                  consumed, loopFail >>

\* variant: the initial zero-fill dispatch left out
AzzeroOmitted ==
  /\ pc = "azzero"
  /\ pc' = "force0"
  /\ UNCHANGED << inflight, held, dt, startFail, inputs, locals, exitCode, nfi, status, dev, fzero, staged, sys,
                  outputs, trace, consumed, faults, initFail, loopFail >>

\* lines 279-281: zero-fill kernel on the force buffers
Azzero ==
  /\ pc = "azzero"
  /\ \E okArgs, okRun \in BOOLEAN :
       /\ Budget(Cost(okArgs) + Cost(okRun))
       /\ faults' = faults + Cost(okArgs) + Cost(okRun)
       /\ status' = St(okRun)
       /\ initFail' = (initFail \/ ~okArgs \/ ~okRun)
       /\ fzero' = (fzero \/ okRun)
       /\ inflight' = Enqueued(inflight, okRun)
  /\ trace' = Append(trace, [k |-> "azzero", nfi |-> nfi])
  /\ pc' = "force0"
  /\ UNCHANGED << held, dt, startFail, inputs, locals, exitCode, nfi, dev, staged, sys, outputs,
                  consumed, loopFail >>

\* effect of a completed opencl_force pass at step s
ForceEffect(d, s) == [d EXCEPT !.f = s, !.epot = s, !.fpos = d.pos]

\* lines 283-298: initial force evaluation
Force0 ==
  /\ pc = "force0"
  /\ \E okArgs, okRun \in BOOLEAN :
       /\ Budget(Cost(okArgs) + Cost(okRun))
       /\ faults' = faults + Cost(okArgs) + Cost(okRun)
       /\ status' = St(okRun)
       /\ initFail' = (initFail \/ ~okArgs \/ ~okRun)
       /\ dev' = IF okRun THEN ForceEffect(dev, nfi) ELSE dev
       /\ fzero' = (fzero /\ ~okRun)
       /\ inflight' = Enqueued(inflight, okRun)
  /\ trace' = Append(trace, [k |-> "force", nfi |-> nfi])
  /\ pc' = "read_epot0"
  /\ UNCHANGED << held, dt, startFail, inputs, locals, exitCode, nfi, staged, sys, outputs, consumed,
                  loopFail >>

\* a blocking readback of one kind into its host staging buffer at step s
Capture(st, k, d, s) ==
  [st EXCEPT ![k] = [ver |-> d[k], at |-> s, gen |-> st[k].gen + 1,
                     fpos |-> d.fpos,
                     pend |-> AfterTransfer(BlockingTransfer, inflight)]]

\* lines 300-302: readback of the potential partials and host sum
ReadEpot0 ==
  /\ pc = "read_epot0"
  /\ \E ok \in BOOLEAN :
       /\ Budget(Cost(ok))
       /\ faults' = faults + Cost(ok)
       /\ status' = Or(status, St(ok))
       /\ initFail' = (initFail \/ ~ok)
       /\ staged' = IF ok THEN Capture(staged, "epot", dev, nfi) ELSE staged
       /\ inflight' = IF ok THEN AfterTransfer(BlockingTransfer, inflight) ELSE inflight
  /\ sys' = [sys EXCEPT !.epot = staged'["epot"].ver,
                        !.epotVal = SumLoop(sys.epotVal, staged'["epot"].ver, 0, nthreads)]
  /\ pc' = "ekin0"
  /\ UNCHANGED << held, dt, startFail, inputs, locals, exitCode, nfi, dev, fzero, outputs, trace,
                  consumed, loopFail >>

\* effect of a completed opencl_ekin pass
EkinEffect(d) == [d EXCEPT !.ekin = d.vel]

\* lines 304-312: tmp_ekin, ekin buffer creation (its status is overwritten
\* unseen) and initial kinetic-energy kernel
Ekin0 ==
  /\ pc = "ekin0"
  /\ \E okArgs, okRun \in BOOLEAN :
       /\ Budget(Cost(okArgs) + Cost(okRun))
       /\ faults' = faults + Cost(okArgs) + Cost(okRun)
       /\ status' = St(okRun)
       /\ initFail' = (initFail \/ ~okArgs \/ ~okRun)
       /\ dev' = IF okRun THEN EkinEffect(dev) ELSE dev
       /\ inflight' = Enqueued(inflight, okRun)
  /\ held' = held \cup {"tmp_ekin", "ekin_buffer"}
  /\ trace' = Append(trace, [k |-> "ekin", nfi |-> nfi])
  /\ pc' = "read_ekin0"
  /\ UNCHANGED << dt, startFail, inputs, locals, exitCode, nfi, fzero, staged, sys, outputs,
                  consumed, loopFail >>

\* lines 314-318: readback of the kinetic partials, host sum, temperature
ReadEkin0 ==
  /\ pc = "read_ekin0"
  /\ \E ok \in BOOLEAN :
       /\ Budget(Cost(ok))
       /\ faults' = faults + Cost(ok)
       /\ status' = Or(status, St(ok))
       /\ initFail' = (initFail \/ ~ok)
       /\ staged' = IF ok THEN Capture(staged, "ekin", dev, nfi) ELSE staged
       /\ inflight' = IF ok THEN AfterTransfer(BlockingTransfer, inflight) ELSE inflight
  /\ sys' = [sys EXCEPT !.ekin = staged'["ekin"].ver, !.temp = staged'["ekin"].ver,
                        !.ekinVal = Scaled(SumLoop(sys.ekinVal, staged'["ekin"].ver,
                                                   0, nthreads))]
  /\ pc' = "read_pos0"
  /\ UNCHANGED << held, dt, startFail, inputs, locals, exitCode, nfi, dev, fzero, outputs, trace,
                  consumed, loopFail >>

\* lines 320-333: open output files, banner, blocking download of positions
ReadPos0 ==
  /\ pc = "read_pos0"
  /\ \E ok \in BOOLEAN :
       /\ Budget(Cost(ok))
       /\ faults' = faults + Cost(ok)
       /\ status' = St(ok)
       /\ initFail' = (initFail \/ ~ok)
       /\ staged' = IF ok THEN Capture(staged, "pos", dev, nfi) ELSE staged
       /\ inflight' = IF ok THEN AfterTransfer(BlockingTransfer, inflight) ELSE inflight
  /\ held' = held \cup OutputFiles
  /\ pc' = "output0"
  /\ UNCHANGED << dt, startFail, inputs, locals, exitCode, nfi, dev, fzero, sys, outputs, trace,
                  consumed, loopFail >>

\* output(): one record of sys.nfi, the aggregates and the position snapshot
OutRec(n, sy, st) ==
  [nfi |-> n, epot |-> sy.epot, ekin |-> sy.ekin,
   epotVal |-> sy.epotVal, ekinVal |-> sy.ekinVal,
   pos |-> st["pos"].ver, epotPos |-> st["epot"].fpos,
   posAt |-> st["pos"].at, epotAt |-> st["epot"].at, ekinAt |-> st["ekin"].at,
   gen |-> [k \in Kinds |-> st[k].gen],
   pend |-> [k \in Kinds |-> st[k].pend],
   fresh |-> [k \in Kinds |-> st[k].gen - consumed[k]]]

\* lines 335-339: step-0 output, then loop initialisation sys.nfi=1 and first test
Output0 ==
  /\ pc = "output0"
  /\ outputs' = Append(outputs, OutRec(nfi, sys, staged))
  /\ consumed' = [k \in Kinds |-> staged[k].gen]
  /\ nfi' = 1
  /\ pc' = LoopTest(1, nsteps)
  /\ UNCHANGED << inflight, held, dt, startFail, inputs, locals, exitCode, status, dev, fzero, staged, sys, trace,
                  faults, initFail, loopFail >>

\* first device failure inside the stepping loop: remember how many records existed
NoteLoopFail(ok) == IF loopFail = -1 /\ ~ok THEN Len(outputs) ELSE loopFail

\* CheckSuccess found a non-zero status: the run ends here
Abort(st) ==
  /\ status' = st
  /\ Exit(AbortExit)

\* effect of a completed opencl_verlet_first pass at step s
VerletFirstEffect(d, s) == [d EXCEPT !.pos = s, !.vel = VelFirst(s)]

\* variant: the second pass also advances the positions
VerletSecondMovesPos(d, s) == [d EXCEPT !.vel = VelSecond(s), !.pos = s + 1]

\* effect of a completed opencl_verlet_second pass at step s
VerletSecondEffect(d, s) == [d EXCEPT !.vel = VelSecond(s)]

\* lines 352-367: arguments, CheckSuccess(status, 2), dispatch of verlet_first
VerletFirst ==
  /\ pc = "verlet_first"
  /\ \E okArgs, okRun \in BOOLEAN :
       LET st1 == Or(status, St(okArgs)) IN
         IF CheckFails(st1)
           THEN /\ okRun
                /\ Budget(Cost(okArgs))
                /\ faults' = faults + Cost(okArgs)
                /\ loopFail' = NoteLoopFail(okArgs)
                /\ Abort(st1)
                /\ UNCHANGED << dev, trace, inflight >>
           ELSE /\ Budget(Cost(okRun))
                /\ faults' = faults + Cost(okRun)
                /\ loopFail' = NoteLoopFail(okRun)
                /\ status' = St(okRun)
                /\ dev' = IF okRun THEN VerletFirstEffect(dev, nfi) ELSE dev
                /\ inflight' = Enqueued(inflight, okRun)
                /\ trace' = Append(trace, [k |-> "verlet_first", nfi |-> nfi])
                /\ pc' = NextPhase(pc)
                /\ UNCHANGED exitCode
  /\ UNCHANGED << held, dt, startFail, inputs, locals, nfi, fzero, staged, sys, outputs, consumed,
                  initFail >>

\* variant: the position snapshot taken on the output step itself
DownloadPosAtBoundary ==
  /\ pc = "download_pos"
  /\ IF CaptureAtBoundary(nfi, nprint)
       THEN \E ok \in BOOLEAN :
              /\ Budget(Cost(ok))
              /\ faults' = faults + Cost(ok)
              /\ loopFail' = NoteLoopFail(ok)
              /\ IF CheckFails(St(ok))
                   THEN /\ Abort(St(ok))
                        /\ UNCHANGED << staged, inflight >>
                   ELSE /\ status' = St(ok)
                        /\ staged' = Capture(staged, "pos", dev, nfi)
                        /\ inflight' = AfterTransfer(BlockingTransfer, inflight)
                        /\ pc' = NextPhase(pc)
                        /\ UNCHANGED exitCode
       ELSE /\ pc' = NextPhase(pc)
            /\ UNCHANGED << faults, loopFail, status, staged, exitCode, inflight >>
  /\ UNCHANGED << held, dt, startFail, inputs, locals, nfi, dev, fzero, sys, outputs, trace, consumed,
                  initFail >>

\* lines 370-379: conditional readback of positions, CheckSuccess(status, 6)
DownloadPos ==
  /\ pc = "download_pos"
  /\ IF CaptureCond(nfi, nprint)
       THEN \E ok \in BOOLEAN :
              /\ Budget(Cost(ok))
              /\ faults' = faults + Cost(ok)
              /\ loopFail' = NoteLoopFail(ok)
              /\ IF CheckFails(St(ok))
                   THEN /\ Abort(St(ok))
                        /\ UNCHANGED << staged, inflight >>
                   ELSE /\ status' = St(ok)
                        /\ staged' = Capture(staged, "pos", dev, nfi)
                        /\ inflight' = AfterTransfer(BlockingTransfer, inflight)
                        /\ pc' = NextPhase(pc)
                        /\ UNCHANGED exitCode
       ELSE /\ pc' = NextPhase(pc)
            /\ UNCHANGED << faults, loopFail, status, staged, exitCode, inflight >>
  /\ UNCHANGED << held, dt, startFail, inputs, locals, nfi, dev, fzero, sys, outputs, trace, consumed,
                  initFail >>

\* lines 382-398: arguments, CheckSuccess(status, 3), dispatch of the force kernel
Force ==
  /\ pc = "force"
  /\ \E okArgs, okRun \in BOOLEAN :
       LET st1 == Or(status, St(okArgs)) IN
         IF CheckFails(st1)
           THEN /\ okRun
                /\ Budget(Cost(okArgs))
                /\ faults' = faults + Cost(okArgs)
                /\ loopFail' = NoteLoopFail(okArgs)
                /\ Abort(st1)
                /\ UNCHANGED << dev, fzero, trace, inflight >>
           ELSE /\ Budget(Cost(okRun))
                /\ faults' = faults + Cost(okRun)
                /\ loopFail' = NoteLoopFail(okRun)
                /\ status' = St(okRun)
                /\ dev' = IF okRun THEN ForceEffect(dev, nfi) ELSE dev
                /\ fzero' = (fzero /\ ~okRun)
                /\ inflight' = Enqueued(inflight, okRun)
                /\ trace' = Append(trace, [k |-> "force", nfi |-> nfi])
                /\ pc' = NextPhase(pc)
                /\ UNCHANGED exitCode
  /\ UNCHANGED << held, dt, startFail, inputs, locals, nfi, staged, sys, outputs, consumed, initFail >>

\* lines 401-404: conditional readback of potential partials, CheckSuccess(status, 7)
DownloadEpot ==
  /\ pc = "download_epot"
  /\ IF CaptureCond(nfi, nprint)
       THEN \E ok \in BOOLEAN :
              LET st1 == Or(status, St(ok)) IN
                /\ Budget(Cost(ok))
                /\ faults' = faults + Cost(ok)
                /\ loopFail' = NoteLoopFail(ok)
                /\ inflight' = IF ok THEN AfterTransfer(BlockingTransfer, inflight) ELSE inflight
                /\ IF CheckFails(st1)
                     THEN /\ Abort(st1)
                          /\ staged' = IF ok THEN Capture(staged, "epot", dev, nfi)
                                             ELSE staged
                     ELSE /\ status' = st1
                          /\ staged' = Capture(staged, "epot", dev, nfi)
                          /\ pc' = NextPhase(pc)
                          /\ UNCHANGED exitCode
       ELSE /\ pc' = NextPhase(pc)
            /\ UNCHANGED << faults, loopFail, status, staged, exitCode, inflight >>
  /\ UNCHANGED << held, dt, startFail, inputs, locals, nfi, dev, fzero, sys, outputs, trace, consumed,
                  initFail >>

\* lines 407-419: arguments, CheckSuccess(status, 4), dispatch of verlet_second
VerletSecond ==
  /\ pc = "verlet_second"
  /\ \E okArgs, okRun \in BOOLEAN :
       LET st1 == Or(status, St(okArgs)) IN
         IF CheckFails(st1)
           THEN /\ okRun
                /\ Budget(Cost(okArgs))
                /\ faults' = faults + Cost(okArgs)
                /\ loopFail' = NoteLoopFail(okArgs)
                /\ Abort(st1)
                /\ UNCHANGED << dev, trace, inflight >>
           ELSE /\ Budget(Cost(okRun))
                /\ faults' = faults + Cost(okRun)
                /\ loopFail' = NoteLoopFail(okRun)
                /\ status' = St(okRun)
                /\ dev' = IF okRun THEN VerletSecondEffect(dev, nfi) ELSE dev
                /\ inflight' = Enqueued(inflight, okRun)
                /\ trace' = Append(trace, [k |-> "verlet_second", nfi |-> nfi])
                /\ pc' = NextPhase(pc)
                /\ UNCHANGED exitCode
  /\ UNCHANGED << held, dt, startFail, inputs, locals, nfi, fzero, staged, sys, outputs, consumed,
                  initFail >>

\* lines 421-433: conditional ekin kernel (CheckSuccess 5) and readback (CheckSuccess 8)
Ekin ==
  /\ pc = "ekin"
  /\ IF CaptureCond(nfi, nprint)
       THEN \E okArgs, okRun, okRead \in BOOLEAN :
              LET st1 == Or(status, St(okArgs))
                  st2 == Or(St(okRun), St(okRead))
                  d1  == IF okRun THEN EkinEffect(dev) ELSE dev
              IN
                IF CheckFails(st1)
                  THEN /\ okRun /\ okRead
                       /\ Budget(Cost(okArgs))
                       /\ faults' = faults + Cost(okArgs)
                       /\ loopFail' = NoteLoopFail(okArgs)
                       /\ Abort(st1)
                       /\ UNCHANGED << dev, staged, trace, inflight >>
                  ELSE /\ Budget(Cost(okRun) + Cost(okRead))
                       /\ faults' = faults + Cost(okRun) + Cost(okRead)
                       /\ loopFail' = NoteLoopFail(okRun /\ okRead)
                       /\ dev' = d1
                       /\ inflight' = IF okRead
                                        THEN AfterTransfer(BlockingTransfer,
                                                           Enqueued(inflight, okRun))
                                        ELSE Enqueued(inflight, okRun)
                       /\ trace' = Append(trace, [k |-> "ekin", nfi |-> nfi])
                       /\ staged' = IF okRead THEN Capture(staged, "ekin", d1, nfi)
                                              ELSE staged
                       /\ IF CheckFails(st2)
                            THEN Abort(st2)
                            ELSE /\ status' = st2
                                 /\ pc' = NextPhase(pc)
                                 /\ UNCHANGED exitCode
       ELSE /\ pc' = NextPhase(pc)
            /\ UNCHANGED << faults, loopFail, status, dev, staged, trace, exitCode,
                            inflight >>
  /\ UNCHANGED << held, dt, startFail, inputs, locals, nfi, fzero, sys, outputs, consumed, initFail >>

\* variant: the reset of the aggregates left out
ReduceNoReset(sy, st) ==
  [sy EXCEPT !.epot = st["epot"].ver, !.ekin = st["ekin"].ver,
             !.temp = st["ekin"].ver,
             !.epotVal = SumLoop(sy.epotVal, st["epot"].ver, 0, nthreads),
             !.ekinVal = Scaled(SumLoop(sy.ekinVal, st["ekin"].ver, 0, nthreads))]

\* lines 439-451: aggregates reset to ZERO, summed from the staged partials
Reduce(sy, st) ==
  [sy EXCEPT !.epot = st["epot"].ver, !.ekin = st["ekin"].ver,
             !.temp = st["ekin"].ver,
             !.epotVal = SumLoop(0, st["epot"].ver, 0, nthreads),
             !.ekinVal = Scaled(SumLoop(0, st["ekin"].ver, 0, nthreads))]

\* lines 436-457 and the loop increment of line 339: periodic output, ++sys.nfi.
\* An increment that overflows is undefined: the run is not followed beyond it
\* (a wrapped counter keeps the loop running, a trapping build aborts) and
\* sys.nfi keeps its last defined value in the model.
WriteOutput ==
  /\ pc = "write_output"
  /\ IF OutputCond(nfi, nprint)
       THEN /\ sys' = Reduce(sys, staged)
            /\ outputs' = Append(outputs, OutRec(nfi, sys', staged))
            /\ consumed' = [k \in Kinds |-> staged[k].gen]
       ELSE UNCHANGED << sys, outputs, consumed >>
  /\ IF Overflows(nfi)
       THEN /\ pc' = "overflow"
            /\ UNCHANGED nfi
       ELSE /\ nfi' = nfi + 1
            /\ pc' = LoopTest(nfi + 1, nsteps)
  /\ UNCHANGED << inflight, held, dt, startFail, inputs, locals, exitCode, status, dev, fzero, staged, trace,
                  faults, initFail, loopFail >>

\* lines 476-484: "Simulation Done.", close files, free staging buffers, return 0
Cleanup ==
  /\ pc = "cleanup"
  /\ pc' = "done"
  /\ held' = held \ (OutputFiles \cup StagingBuffers)
  /\ exitCode' = 0
  /\ UNCHANGED << inflight, dt, startFail, inputs, locals, nfi, status, dev, fzero, staged, sys, outputs,
                  trace, consumed, faults, initFail, loopFail >>

Next ==
  \/ HandleArgs
  \/ InitCL
  \/ ReadInput
  \/ Alloc
  \/ ReadRestart
  \/ Build
  \/ Azzero
  \/ Force0
  \/ ReadEpot0
  \/ Ekin0
  \/ ReadEkin0
  \/ ReadPos0
  \/ Output0
  \/ VerletFirst
  \/ DownloadPos
  \/ Force
  \/ DownloadEpot
  \/ VerletSecond
  \/ Ekin
  \/ WriteOutput
  \/ Cleanup

Spec == Init /\ [][Next]_vars

\* ------------------------------------------------------------------ claims

InitPhases == {"args", "init_cl", "read_input", "alloc", "read_restart", "build",
               "azzero", "force0", "read_epot0", "ekin0", "read_ekin0",
               "read_pos0", "output0"}
LoopPhases == {"verlet_first", "download_pos", "force", "download_epot",
               "verlet_second", "ekin", "write_output"}

\* kernels dispatched inside the stepping loop, the kinetic-energy kernel aside
LoopDispatch == SelectSeq(trace, LAMBDA e : e.nfi >= 1 /\ e.k # "ekin")

StepPattern == << "verlet_first", "force", "verlet_second" >>

\* C1: the integrator and force dispatches of the stepping loop form the
\* sequence first half-step, force, second half-step of step 1, then of step 2,
\* and so on: each force pass lies strictly between the two half-steps of its
\* own step, none lies between two steps, and a finished run has dispatched
\* all three kernels for every step 1..nsteps.
C1_StepOrder ==
  /\ \A i \in 1..Len(LoopDispatch) :
       LoopDispatch[i] = [k |-> StepPattern[((i - 1) % 3) + 1],
                          nfi |-> ((i - 1) \div 3) + 1]
  /\ pc \in {"cleanup", "done"} => Len(LoopDispatch) = 3 * nsteps
  /\ pc \in {"ekin", "write_output"} => Len(LoopDispatch) = 3 * nfi

C1_Witness ==
  /\ pc = "done"
  /\ nsteps >= 2
  /\ Len(LoopDispatch) = 3 * nsteps

C4_OutputCadence ==
  /\ \A i \in 1..Len(outputs) : outputs[i].nfi = (i - 1) * nprint
  /\ outputs = << >> => LoopDispatch = << >>
  /\ pc \in InitPhases => outputs = << >>
  /\ pc \in LoopPhases => Len(outputs) = 1 + ((nfi - 1) \div nprint)
  /\ pc \in {"cleanup", "done"} => Len(outputs) = 1 + (nsteps \div nprint)

C4_Witness ==
  /\ pc = "done"
  /\ nprint = 2
  /\ nsteps = 3
  /\ Len(outputs) = 2

\* C5 (as claimed): once a device operation of the stepping loop has failed, no
\* further output record is written and the run never reaches the terminal
\* state "Simulation Done".
C5_Claimed ==
  loopFail # -1 => (Len(outputs) = loopFail /\ pc # "done")

\* C6 (as claimed): once a device operation of the initialisation has failed,
\* no output record is written and no integration kernel is dispatched.
C6_Claimed ==
  initFail => (outputs = << >> /\ LoopDispatch = << >>)

\* C7: a staging buffer never holds more than one generation that no output
\* has consumed, and every output at a step >= 1 finds exactly one readback of
\* each kind since the previous output: nothing overwrote the capture it prints.
C7_OneGeneration ==
  /\ \A k \in Kinds : staged[k].gen - consumed[k] <= 1
  /\ \A i \in 1..Len(outputs) :
       outputs[i].nfi >= 1 => \A k \in Kinds : outputs[i].fresh[k] = 1

C7_Witness ==
  /\ nprint = 2
  /\ Len(outputs) = 3
  /\ \A k \in Kinds : outputs[3].fresh[k] = 1

\* C8: any two distinct output records were computed from distinct captures
\* of the position snapshot, the potential partials and the kinetic partials.
C8_ConsumedOnce ==
  \A i, j \in 1..Len(outputs) :
    i # j => \A k \in Kinds : outputs[i].gen[k] # outputs[j].gen[k]

C8_Witness ==
  /\ Len(outputs) >= 2
  /\ outputs[1].nfi = 0
  /\ outputs[2].nfi = nprint
  /\ nprint = 3

\* C9 (as claimed): every force dispatch is preceded by a zero-fill dispatch
\* issued after the previous force dispatch.
C9_Claimed ==
  \A i \in 1..Len(trace) :
    trace[i].k = "force" =>
      \E j \in 1..(i - 1) :
        /\ trace[j].k = "azzero"
        /\ \A m \in (j + 1)..(i - 1) : trace[m].k # "force"

\* C9 (amended): the zero-fill kernel is dispatched exactly once, before the
\* initial force dispatch; no zero-fill is dispatched in any step 1..nsteps.
C9_ZeroFillOnce ==
  /\ \A i \in 1..Len(trace) :
       trace[i].k = "force" => \E j \in 1..(i - 1) : trace[j].k = "azzero"
  /\ \A i \in 1..Len(trace) :
       trace[i].k = "azzero" => (i = 1 /\ trace[i].nfi = 0)

C9_Witness ==
  \E i \in 1..Len(trace) : trace[i].k = "force" /\ trace[i].nfi >= 2

\* text of a thread count the usage message accepts: digits only, value >= 1
RECURSIVE AllDigits(_)
AllDigits(s) == s = << >> \/ (Head(s) \in Digits /\ AllDigits(Tail(s)))

RECURSIVE SomeNonZero(_)
SomeNonZero(s) == s # << >> /\ (Head(s) # "0" \/ SomeNonZero(Tail(s)))

ValidThreadText(s) == s # << >> /\ AllDigits(s) /\ SomeNonZero(s)

BadCommandLine == argc \notin {2, 3} \/ (argc = 3 /\ ~ValidThreadText(argv2))

\* C10 (as claimed): a command line with a wrong argument count or an invalid
\* thread count (zero, negative, not a number) ends with the usage text and
\* status 1, before the device facility is initialised or any input is read.
C10_Claimed ==
  (BadCommandLine /\ pc # "args") =>
    (pc = "exited" /\ exitCode = UsageExit /\ ~clReady /\ ~inputRead)

\* C11: a start-up failure ends the run with its own non-zero status before
\* any output record or kernel dispatch: device-facility initialisation
\* failure with status 4, an unreadable input-script line with a non-zero
\* status, a restart file that cannot be opened with status 3.
C11_StartupExits ==
  /\ startFail = "cl" => (pc = "exited" /\ exitCode = 4)
  /\ startFail = "input" => (pc = "exited" /\ exitCode # 0 /\ exitCode # -1)
  /\ startFail = "restart" => (pc = "exited" /\ exitCode = 3)
  /\ startFail # "none" => (outputs = << >> /\ trace = << >>)

C11_Witness ==
  /\ startFail = "restart"
  /\ pc = "exited"
  /\ exitCode = 3
  /\ clReady
  /\ inputRead

\* text of a real-valued script line that is a number (digits only here)
ValidNumberText(s) == s # << >> /\ AllDigits(s)

InputDefect == ~ValidNumberText(in_dt) \/ in_restart = "short"

\* C12 (as claimed): with a malformed value in the input script or a restart
\* file holding fewer than 2N triples, no integration step is executed and
\* the run does not end with status 0.
C12_Claimed ==
  InputDefect => (LoopDispatch = << >> /\ pc # "done")

\* C13 (as claimed): in the terminal state every resource the driver acquired
\* has been released: output files, host allocations and device objects.
C13_Claimed ==
  pc = "done" => held = {}

\* C14: at the end of every step either all three kinds were read back in
\* that step (exactly when step modulo print interval is print interval - 1)
\* or none was; every output at a step >= 1 combines a position snapshot and
\* energy partials read back in one and the same step, and the snapshot holds
\* the positions that the captured force pass read.
C14_AllOrNothing ==
  /\ pc = "write_output" =>
       IF (nfi % nprint) = nprint - 1
         THEN \A k \in Kinds : staged[k].at = nfi
         ELSE \A k \in Kinds : staged[k].at < nfi
  /\ \A i \in 1..Len(outputs) :
       outputs[i].nfi >= 1 =>
         /\ outputs[i].posAt = outputs[i].epotAt
         /\ outputs[i].epotAt = outputs[i].ekinAt
         /\ outputs[i].pos = outputs[i].epotPos

C14_Witness ==
  /\ nprint = 3
  /\ Len(outputs) = 2
  /\ outputs[2].nfi = 3
  /\ outputs[2].posAt = 2
  /\ outputs[2].pos = 2

\* sum of the slots 0..n-1 of a partial array tagged ver, in closed form
SlotSum(ver, n) == n * (ver + 2) + ((n * (n - 1)) \div 2)

\* C15: every output record, the step-0 one included, reports as potential
\* energy the sum of exactly nthreads staged potential partials and as kinetic
\* energy the scaled sum of exactly nthreads staged kinetic partials, whatever
\* earlier outputs reported.
C15_Reduction ==
  \A i \in 1..Len(outputs) :
    /\ outputs[i].epotVal = SlotSum(outputs[i].epot, nthreads)
    /\ outputs[i].ekinVal = KinScale * SlotSum(outputs[i].ekin, nthreads)

C15_Witness ==
  /\ nthreads = 16
  /\ Len(outputs) = 3
  /\ outputs[2].epotVal # outputs[3].epotVal
  /\ outputs[3].ekinVal = KinScale * SlotSum(outputs[3].ekin, 16)

\* C16: the second half-step integration changes neither the device position
\* buffers nor the host position snapshot.
C16_SecondKickKeepsPos ==
  [][pc = "verlet_second" =>
       (dev'.pos = dev.pos /\ staged'["pos"] = staged["pos"])]_vars

C16_Witness ==
  /\ pc = "ekin"
  /\ nfi = 2
  /\ dev.vel = 4
  /\ dev.pos = 2

\* C17: the aggregates sys.epot, sys.ekin, sys.temp are left unchanged by
\* every phase of a step whose index is not a multiple of the print interval,
\* and within any step by every phase but the output phase.
C17_AggregatesFrame ==
  [][(pc \in LoopPhases /\ ((nfi % nprint) # 0 \/ pc # "write_output"))
       => sys' = sys]_vars

C17_Witness ==
  /\ nprint = 3
  /\ nfi = 3
  /\ pc = "verlet_first"
  /\ Len(outputs) = 1
  /\ sys.epot = 0

\* C18 (as claimed): in every reachable state the step index lies in 0..nsteps.
C18_Claimed ==
  nfi \in 0..nsteps

\* C18 (amended): the step index starts at 0, never decreases, grows by
\* exactly 1 at a time, lies in 1..nsteps while the loop body runs and is
\* nsteps+1 once the loop has ended.
C18_StepIndex ==
  [][/\ nfi' \in {nfi, nfi + 1}
     /\ pc' \in InitPhases => nfi' = 0
     /\ pc' \in LoopPhases => nfi' \in 1..nsteps'
     /\ pc' \in {"cleanup", "done"} => nfi' = nsteps' + 1]_vars

C18_Witness ==
  /\ pc = "done"
  /\ nsteps = 3
  /\ nfi = 4

C20_Claimed ==
  (faults = 0 /\ pc \notin (InitPhases \cup LoopPhases \cup {"exited"})) =>
    (pc \in {"cleanup", "done"} /\ Len(LoopDispatch) = 3 * nsteps)
====
